---- MODULE Spec2Model ----
(***************************************************************************)
(* LEB128 codec of src/src/lib.rs: leb128_encode and leb128_decode for the *)
(* primitive integer types, with the byte sink and byte source they use.   *)
(*                                                                         *)
(* An integer of a W-bit type is the set of the positions of its set bits  *)
(* (a subset of 0..W-1, two's complement for the signed types), so that    *)
(* the 64- and 128-bit types keep their width.  A byte is a number 0..255. *)
(***************************************************************************)
EXTENDS Integers, Sequences, FiniteSets

\* ------------------------------------------------------------------ bounds

\* Input values of a type are the PatBits-bit patterns at every bit offset.
PatBits == 3
\* Raw decoder inputs run up to MaxOverlong bytes past the last byte that
\* can hold bits of the type, before their last two bytes.
MaxOverlong == 2
\* Values encoded back to back into one buffer.
MaxStream == 2
\* Largest capacity of a fixed-size output buffer that is too small, and
\* latest write at which a failing sink fails.
MaxCap == 2

\* ------------------------------------------------------------------- types

Widths == {8, 16, 32, 64, 128}
Types == [bits : Widths, signed : BOOLEAN]
Unsigned(W) == [bits |-> W, signed |-> FALSE]
Signed(W) == [bits |-> W, signed |-> TRUE]

\* The bits of a number 0..511, and the byte of a set of bits 0..7.
BitsTable == [n \in 0..511 |-> {i \in 0..8 : (n \div (2 ^ i)) % 2 = 1}]
U8Bits(b) == BitsTable[b]
Weight(S, i) == IF i \in S THEN 2 ^ i ELSE 0
U8Val(S) ==
  Weight(S, 0) + Weight(S, 1) + Weight(S, 2) + Weight(S, 3)
  + Weight(S, 4) + Weight(S, 5) + Weight(S, 6) + Weight(S, 7)

\* pub const CONTINUATION: u8 = 1 << 7
CONTINUATION == 128

\* u8 operators of the code: &, |, ^, !
U8And(a, b) == U8Val(U8Bits(a) \cap U8Bits(b))
U8Or(a, b) == U8Val(U8Bits(a) \cup U8Bits(b))
U8Xor(a, b) == U8Val((U8Bits(a) \ U8Bits(b)) \cup (U8Bits(b) \ U8Bits(a)))
U8Not(a) == U8Val((0..7) \ U8Bits(a))
\* a << n on u8 for n < 8: the bits shifted out are lost
U8Shl(a, n) == U8Val({i + n : i \in U8Bits(a)} \cap (0..7))

\* ------------------------------------------------- num_traits primitives

\* N::zero(), is_zero, count_zeros of zero
Zero == {}
IsZero(num) == num = {}
AllOnes(W) == 0..(W - 1)

\* PrimInt::unsigned_shr: logical shift right
unsigned_shr(num, n, W) == {i - n : i \in {j \in num : j >= n}}
\* PrimInt::signed_shr: arithmetic shift right, the sign bit is copied in
signed_shr(num, n, W) ==
  unsigned_shr(num, n, W) \cup (IF (W - 1) \in num THEN (W - n)..(W - 1) ELSE {})

\* is_signed: zero.checked_sub(one) is Some exactly for the signed types
is_signed(ty) == ty.signed

\* get_shr: the shift of the type's signedness
get_shr(num, n, ty) ==
  IF is_signed(ty) THEN signed_shr(num, n, ty.bits)
  ELSE unsigned_shr(num, n, ty.bits)

\* num + N::one(): ripple carry from bit 0; the carry out of the top bit is
\* lost (-1 + 1 = 0 for the signed types, where the code uses it).
PlusOne(num, W) ==
  LET zeros == AllOnes(W) \ num
  IN IF zeros = {} THEN {}
     ELSE LET k == CHOOSE z \in zeros : \A y \in zeros : z <= y
          IN (num \ (0..(k - 1))) \cup {k}

is_encode_end(num, ty) ==
  IF is_signed(ty)
    THEN LET n6 == get_shr(num, 6, ty)
         IN IsZero(n6) \/ IsZero(PlusOne(n6, ty.bits))
    ELSE LET n7 == get_shr(num, 7, ty)
         IN IsZero(n7)

\* NumCast::from(n) for a literal or byte n >= 0: Some(n) when n fits the
\* type (below 2^(W-1) for a signed type, 2^W for an unsigned one), else None.
None == [some |-> FALSE, val |-> {}]
Some(v) == [some |-> TRUE, val |-> v]
NumCastFrom(n, ty) ==
  LET top == IF is_signed(ty) THEN ty.bits - 1 ELSE ty.bits
  IN IF \A i \in BitsTable[n] : i < top THEN Some(BitsTable[n]) ELSE None

\* ToPrimitive::to_u8: Some(byte) for a value in 0..255, else None.
to_u8(num, ty) ==
  IF (is_signed(ty) /\ (ty.bits - 1) \in num) \/ ~(num \subseteq 0..7)
    THEN [some |-> FALSE, val |-> 0]
    ELSE [some |-> TRUE, val |-> U8Val(num)]

\* num << shift within W bits, for shift < W
Shl(num, shift, W) == {i + shift : i \in num} \cap AllOnes(W)

\* ------------------------------------------------------------------ inputs

\* The values of a type given to leb128_encode: every PatBits-bit pattern at
\* every bit offset, over zeros or over ones, and the complements of these
\* (the negative values of a signed type); every value of an 8-bit type.
\* The values of tests::test_unsigned_exact and tests::test_signed_exact:
\* 0x29442u64, 0x7Fi16, -0x53i32, -0x8652i32 (0x81u8 is among the u8 values).
ExactValues(ty) ==
  IF ty = [bits |-> 64, signed |-> FALSE] THEN {{1, 6, 10, 12, 15, 17}}
  ELSE IF ty = [bits |-> 16, signed |-> TRUE] THEN {0..6}
  ELSE IF ty = [bits |-> 32, signed |-> TRUE]
    THEN {(0..31) \ {1, 4, 6}, (0..31) \ {0, 4, 6, 9, 10, 15}}
  ELSE {}

Values(ty) ==
  LET W == ty.bits
      pats == {Shl(p, s, W) : p \in SUBSET (0..(PatBits - 1)), s \in 0..(W - 1)}
      base == pats \cup {v \cup (0..(CHOOSE m \in v : \A j \in v : m <= j)) :
                         v \in pats \ {{}}}
  IN IF W = 8 THEN SUBSET (0..7)
     ELSE base \cup {AllOnes(W) \ v : v \in base} \cup ExactValues(ty)

\* The values written back to back, and the values given to a faulty sink.
StreamValues(ty) == {{}, 0..6, {7}, AllOnes(ty.bits)}
FaultValues(ty) == {{}, {7}, {0, 14}, AllOnes(ty.bits)}

RECURSIVE SeqsUpTo(_, _)
SeqsUpTo(S, n) ==
  IF n = 0 THEN {<<>>}
  ELSE LET shorter == SeqsUpTo(S, n - 1)
       IN shorter \cup {Append(q, x) : q \in {r \in shorter : Len(r) = n - 1}, x \in S}

\* Byte sinks (io::Write): a Vec takes every byte; a fixed-size buffer takes
\* cap bytes and then accepts zero bytes with Ok(0); a failing sink returns
\* Err from its write number cap+1 on.
VecWriter == [kind |-> "vec", cap |-> 0]
FaultyWriters ==
  {[kind |-> k, cap |-> c] : k \in {"slice", "failing"}, c \in 0..MaxCap}

\* Bytes a decoder of a W-bit type may be handed that no encoder wrote: a run
\* of 0x80 bytes (continuation flag, no payload), then at most two bytes
\* whose payloads lie around the largest last payloads 1, 3 and 15 of the
\* types, with and without the continuation flag.
RawPayloads == {0, 1, 2, 3, 4, 15, 16, 127}
RawBytes == RawPayloads \cup {p + CONTINUATION : p \in RawPayloads}
Repeat(b, k) == [i \in 1..k |-> b]
RawTails == {<<>>} \cup {<<a>> : a \in RawBytes} \cup {<<a, b>> : a, b \in RawBytes}
RawInputs(W) ==
  {Repeat(CONTINUATION, k) \o t : k \in 0..((W \div 7) + MaxOverlong), t \in RawTails}

\* ------------------------------------------------------------------- state

VARIABLES
  ety,      \* the type leb128_encode is called on
  values,   \* the values to encode, in order
  writer,   \* the byte sink
  buf,      \* the bytes the sink holds; the byte source reads them
  enc,      \* leb128_encode: pc, index of the value, num, bytes_written
  dty,      \* the type leb128_decode is called for
  dec,      \* leb128_decode: pc, first byte, position, num, shift
  results   \* the results of the finished decode calls, in order

vars == <<ety, values, writer, buf, enc, dty, dec, results>>

NoType == [bits |-> 0, signed |-> FALSE]
EncIdle == [pc |-> "idle", k |-> 0, num |-> {}, bytes_written |-> 0, byte_mask |-> {}]
DecIdle == [pc |-> "idle", start |-> 0, pos |-> 0, num |-> {}, shift |-> 0]

InitEncode ==
  /\ ety \in Types
  /\ \/ /\ values \in {<<x>> : x \in Values(ety)}
        /\ writer = VecWriter
     \/ /\ values \in {<<x>> : x \in FaultValues(ety)}
        /\ writer \in FaultyWriters
     \/ /\ values \in {q \in SeqsUpTo(StreamValues(ety), MaxStream) : Len(q) >= 2}
        /\ writer = VecWriter
  /\ buf = <<>>

InitRaw ==
  /\ ety = NoType
  /\ values = <<>>
  /\ writer = VecWriter
  /\ dty \in {Unsigned(W) : W \in Widths}
  /\ buf \in RawInputs(dty.bits)

Init ==
  /\ \/ InitEncode /\ dty = NoType
     \/ InitRaw
  /\ enc = EncIdle
  /\ dec = DecIdle
  /\ results = <<>>

\* ------------------------------------------------------------------ encode

\* leb128_encode, lines 75-78: the locals before the loop.  The unwrap of
\* N::from(0xFF) panics when 0xFF does not fit the type.
EncodeCall ==
  /\ enc.pc \in {"idle", "ok"}
  /\ enc.k < Len(values)
  /\ dec.pc = "idle"
  /\ LET byte_mask == NumCastFrom(255, ety)
     IN enc' = IF byte_mask.some
                 THEN [pc |-> "loop", k |-> enc.k + 1, num |-> values[enc.k + 1],
                       bytes_written |-> 0, byte_mask |-> byte_mask.val]
                 ELSE [EncIdle EXCEPT !.pc = "panic", !.k = enc.k + 1]
  /\ UNCHANGED <<ety, values, writer, buf, dty, dec, results>>

\* writer.write(&[out]) on the sink: "ok1" the byte is taken, "ok0" Ok(0) and
\* nothing is taken, "err" Err.  written is the number of earlier writes.
WriteOutcome(w, held, written) ==
  CASE w.kind = "vec" -> "ok1"
    [] w.kind = "slice" -> IF held < w.cap THEN "ok1" ELSE "ok0"
    [] w.kind = "failing" -> IF written < w.cap THEN "ok1" ELSE "err"

\* One iteration of the loop of leb128_encode, lines 79-93.
EncodeStep ==
  /\ enc.pc = "loop"
  /\ LET byte == to_u8(enc.num \cap enc.byte_mask, ety)
         ends == is_encode_end(enc.num, ety)
         num == get_shr(enc.num, 7, ety)
         out == IF ends THEN U8And(byte.val, U8Not(CONTINUATION))
                ELSE U8Or(byte.val, CONTINUATION)
         wrote == WriteOutcome(writer, Len(buf), enc.bytes_written)
     IN IF ~byte.some
          THEN /\ enc' = [enc EXCEPT !.pc = "panic"]
               /\ buf' = buf
          ELSE /\ buf' = IF wrote = "ok1" THEN Append(buf, out) ELSE buf
               /\ enc' = IF wrote = "err"
                           THEN [enc EXCEPT !.pc = "err", !.num = num]
                           ELSE [enc EXCEPT !.num = num,
                                            !.bytes_written = @ + 1,
                                            !.pc = IF ends THEN "ok" ELSE "loop"]
  /\ UNCHANGED <<ety, values, writer, dty, dec, results>>

\* ------------------------------------------------------------------ decode

\* let max_shift = ((num.count_zeros() as usize) / 7) * 7, num being zero
max_shift(W) == (W \div 7) * 7
\* Mutant of max_last_byte: the mask is one bit short.
max_last_byte_short(W) == U8Not(U8Shl(255, W - max_shift(W) - 1))
\* let max_last_byte = !(0xFF << (num.count_zeros() as usize - max_shift)), a u8
max_last_byte(W) == U8Not(U8Shl(255, W - max_shift(W)))

\* The types an encoded buffer is decoded as: the type it was encoded from,
\* or the unsigned type of half the width (tests::unsigned_overflow).
DecodeTypes ==
  {ety} \cup (IF ~ety.signed /\ ety.bits > 8 THEN {Unsigned(ety.bits \div 2)} ELSE {})

MaxCalls == IF values = <<>> THEN 1 ELSE Len(values)

Result(kind, d) == [kind |-> kind, val |-> d.num, start |-> d.start, pos |-> d.pos]

\* leb128_decode, lines 42-49: todo!() for a signed type, else the locals
\* before the loop.  The reader stays where the previous call left it.
DecodeCall(t) ==
  /\ enc.pc \in {"idle", "ok"}
  /\ enc.k = Len(values)
  /\ dec.pc \in {"idle", "ok"}
  /\ Len(results) < MaxCalls
  /\ IF dty = NoType THEN t \in DecodeTypes ELSE t = dty
  /\ dty' = t
  /\ LET d == [pc |-> "loop", start |-> dec.pos, pos |-> dec.pos, num |-> Zero, shift |-> 0]
     IN IF is_signed(t)
          THEN /\ dec' = [d EXCEPT !.pc = "panic"]
               /\ results' = Append(results, Result("Panic", d))
          ELSE /\ dec' = d
               /\ results' = results
  /\ UNCHANGED <<ety, values, writer, buf, enc>>

\* num_like << shift.  For shift >= W the build decides: with overflow checks
\* (debug) the shift panics, without (release) the shift amount wraps to
\* shift mod W.
ShlChecked(num_like, shift, W, build) ==
  IF shift < W THEN Some(Shl(num_like, shift, W))
  ELSE IF build = "debug" THEN None
  ELSE Some(Shl(num_like, shift % W, W))

\* Mutant of Overflows: the test also fires past the boundary byte.
OverflowsFrom(shift, byte, W) == shift >= max_shift(W) /\ byte > max_last_byte(W)
\* The InvalidData test of line 58.
Overflows(shift, byte, W) == shift = max_shift(W) /\ byte > max_last_byte(W)

\* Mutant of Ends: the flag is looked for one bit too low.
EndsBit6(b) == U8And(b, 64) = 0
\* The continuation test of line 52.
Ends(b) == U8And(b, CONTINUATION) = 0

\* One iteration of the loop of leb128_decode, lines 50-66.
DecodeStep(build) ==
  /\ dec.pc = "loop"
  /\ UNCHANGED <<ety, values, writer, buf, enc, dty>>
  /\ IF dec.pos >= Len(buf)
       THEN \* read_exact fails: the reader's error is returned
            /\ dec' = [dec EXCEPT !.pc = "err"]
            /\ results' = Append(results, Result("UnexpectedEof", dec))
       ELSE LET W == dty.bits
                b == buf[dec.pos + 1]
                ends == Ends(b)
                byte == IF ~ends THEN U8Xor(b, CONTINUATION) ELSE b
                num_like == NumCastFrom(byte, dty)
                read == [dec EXCEPT !.pos = @ + 1]
                shifted == ShlChecked(num_like.val, dec.shift, W, build)
                done == [read EXCEPT !.num = @ \cup shifted.val, !.shift = @ + 7]
            IN IF ~num_like.some
                 THEN /\ dec' = [read EXCEPT !.pc = "panic"]
                      /\ results' = Append(results, Result("Panic", read))
               ELSE IF Overflows(dec.shift, byte, W)
                 THEN /\ dec' = [read EXCEPT !.pc = "err"]
                      /\ results' = Append(results, Result("InvalidData", read))
               ELSE IF ~shifted.some
                 THEN /\ dec' = [read EXCEPT !.pc = "panic"]
                      /\ results' = Append(results, Result("Panic", read))
               ELSE IF ends
                 THEN /\ dec' = [done EXCEPT !.pc = "ok"]
                      /\ results' = Append(results, Result("Ok", done))
               ELSE /\ dec' = done
                    /\ results' = results

Next ==
  \/ EncodeCall
  \/ EncodeStep
  \/ \E t \in Types : DecodeCall(t)
  \/ \E build \in {"debug", "release"} : DecodeStep(build)

Spec == Init /\ [][Next]_vars

\* ------------------------------------------------------------ properties

\* Stated on bytes and bit positions, apart from the operators of the codec.
Payload(b) == b % 128
HasContinuation(b) == b >= 128
Encoded == ety # NoType
OneValue == Encoded /\ Len(values) = 1
AllWritesTaken == writer = VecWriter
UnsignedDecode == dty # NoType /\ ~dty.signed
\* The largest payload of the byte at bit offset floor(W/7)*7.
LastPayloadMax(W) == 2 ^ (W - (W \div 7) * 7) - 1
\* The value sum(payload_i * 2^(7i)) of bytes first+1..last of the buffer, as
\* its set of bits: the 7-bit groups do not overlap.
ExactBits(first, last) ==
  UNION {{7 * (i - first - 1) + j :
            j \in {k \in 0..6 : (Payload(buf[i]) \div (2 ^ k)) % 2 = 1}} :
         i \in (first + 1)..last}
\* Bit j of x in its type, sign-extended (signed) or zero-extended past W.
ExtBit(x, ty, j) ==
  IF j < ty.bits THEN j \in x ELSE ty.signed /\ (ty.bits - 1) \in x
\* x is representable in n bytes: x < 2^(7n) for an unsigned type,
\* -2^(7n-1) <= x < 2^(7n-1) for a signed one.
FitsBytes(x, ty, n) ==
  IF ty.signed
    THEN \A j \in (7 * n - 1)..(ty.bits - 1) : (j \in x) <=> ((ty.bits - 1) \in x)
    ELSE \A j \in x : j < 7 * n
EncodeReturned == enc.pc \in {"ok", "err", "panic"}

\* C1: an unsigned value encoded into a sink that takes every byte and
\* decoded as the same type comes back as Ok(x).
UnsignedRoundTrip ==
  (OneValue /\ AllWritesTaken /\ ~ety.signed /\ dty = ety /\ results # <<>>)
    => (results[1].kind = "Ok" /\ results[1].val = values[1])

\* A u64 with bit 63 set has come back: its last byte lay at max_shift.
UnsignedRoundTripWitness ==
  /\ OneValue /\ AllWritesTaken /\ ety = Unsigned(64) /\ dty = ety
  /\ 63 \in values[1] /\ Len(buf) = 10
  /\ results # <<>> /\ results[1].kind = "Ok" /\ results[1].val = values[1]

\* C2: a signed value encoded and decoded as the same type comes back as
\* Ok(x).
SignedRoundTrip ==
  (OneValue /\ AllWritesTaken /\ ety.signed /\ dty = ety /\ results # <<>>)
    => (results[1].kind = "Ok" /\ results[1].val = values[1])

\* C3: an unsigned value encoded from the wider type and decoded as the
\* type of half the width is Ok(x) when it fits and InvalidData when not.
OverflowRejection ==
  (OneValue /\ AllWritesTaken /\ ~ety.signed /\ dty = Unsigned(ety.bits \div 2)
   /\ dec.pc # "loop" /\ results # <<>>)
    => IF values[1] \subseteq 0..(dty.bits - 1)
         THEN results[1].kind = "Ok" /\ results[1].val = values[1]
         ELSE results[1].kind = "InvalidData"

\* C4: an unsigned decode that returns Ok(v) returns the exact value of the
\* bytes it consumed, and no payload is shifted by W or more.
NoTruncatedResult ==
  UnsignedDecode =>
    /\ \A i \in 1..Len(results) :
         /\ results[i].kind = "Ok"
              => results[i].val = ExactBits(results[i].start, results[i].pos)
         /\ results[i].kind # "Panic"
    /\ dec.shift > 0 => dec.shift - 7 < dty.bits

\* C5: leb128_encode of every value of every type emits n >= 1 bytes, byte i
\* holding bits 7i..7i+6 of the extended value, with the continuation flag
\* on all but the last.
EncodeWireFormat ==
  (OneValue /\ AllWritesTaken /\ EncodeReturned) =>
    /\ enc.pc = "ok"
    /\ Len(buf) >= 1
    /\ \A i \in 1..Len(buf) :
         /\ \A j \in 0..6 :
              ((Payload(buf[i]) \div (2 ^ j)) % 2 = 1)
                <=> ExtBit(values[1], ety, 7 * (i - 1) + j)
         /\ HasContinuation(buf[i]) <=> i < Len(buf)

\* C6: leb128_encode of every value returns, having emitted the smallest
\* number n >= 1 of bytes that represents the value, at most ceil(W/7).
CanonicalMinimalLength ==
  (OneValue /\ AllWritesTaken /\ EncodeReturned) =>
    /\ enc.pc = "ok"
    /\ Len(buf) >= 1
    /\ FitsBytes(values[1], ety, Len(buf))
    /\ Len(buf) > 1 => ~FitsBytes(values[1], ety, Len(buf) - 1)
    /\ Len(buf) <= (ety.bits + 6) \div 7

\* C7: leb128_encode returns Ok when every write succeeds, and Err only when
\* a write returned Err, after which nothing more is written.
EncodeFailsOnlyOnWriteFailure ==
  (Encoded /\ EncodeReturned) =>
    /\ enc.pc # "panic"
    /\ writer.kind # "failing" => enc.pc = "ok"
    /\ enc.pc = "err" =>
         /\ writer.kind = "failing"
         /\ enc.bytes_written = writer.cap
         /\ Len(buf) = writer.cap

\* C8: a step of an unsigned decode returns InvalidData exactly when the
\* byte it reads lies at bit offset floor(W/7)*7 and its payload exceeds
\* 2^(W - floor(W/7)*7) - 1, and returns the reader's error (UnexpectedEof)
\* exactly when no byte is left to read.
DecodeErrorClassification ==
  [][(dec.pc = "loop" /\ dec' # dec) =>
       LET W == dty.bits
           eof == dec.pos >= Len(buf)
           offset == 7 * (dec.pos - dec.start)
           kind == IF results' # results THEN results'[Len(results')].kind ELSE "none"
       IN /\ kind = "InvalidData"
               <=> (~eof /\ offset = (W \div 7) * 7
                    /\ Payload(buf[dec.pos + 1]) > LastPayloadMax(W))
          /\ kind = "UnexpectedEof" <=> eof
          /\ kind = "InvalidData" => results'[Len(results')].pos = dec.pos + 1
          /\ kind = "UnexpectedEof" => results'[Len(results')].pos = dec.pos
     ]_vars

\* A u32 decode has rejected its fifth byte, the bytes before it carrying
\* payloads above the bound at smaller offsets; and a decode has hit the end.
DecodeErrorClassificationWitness ==
  /\ dty = Unsigned(32) /\ Len(results) = 1
  /\ results[1].kind = "InvalidData"
  /\ results[1].pos - results[1].start = 5
  /\ Payload(buf[4]) = 127

\* C9: an unsigned decode that returns Ok has consumed the bytes up to and
\* including the first one without the continuation flag and no more; one
\* that returns InvalidData has consumed the offending byte last; and the
\* values encoded back to back come back in order from successive calls.
DecodeConsumesOneInteger ==
  UnsignedDecode =>
    /\ \A i \in 1..Len(results) :
         LET r == results[i]
         IN /\ r.start = IF i = 1 THEN 0 ELSE results[i - 1].pos
            /\ r.kind = "Ok" =>
                 /\ r.pos > r.start
                 /\ ~HasContinuation(buf[r.pos])
                 /\ \A j \in (r.start + 1)..(r.pos - 1) : HasContinuation(buf[j])
            /\ r.kind = "InvalidData" =>
                 /\ r.pos > r.start
                 /\ 7 * (r.pos - r.start - 1) = (dty.bits \div 7) * 7
                 /\ Payload(buf[r.pos]) > LastPayloadMax(dty.bits)
            /\ (Encoded /\ AllWritesTaken /\ dty = ety) =>
                 (r.kind = "Ok" /\ r.val = values[i])
    /\ dec.pc # "loop" /\ results # <<>> => dec.pos = results[Len(results)].pos

\* Two different values written back to back have both come back, the
\* first from a one-byte encoding with bytes left unread behind it.
DecodeConsumesOneIntegerWitness ==
  /\ Encoded /\ ~ety.signed /\ dty = ety /\ Len(values) = 2 /\ Len(results) = 2
  /\ values[1] # values[2]
  /\ results[1].kind = "Ok" /\ results[1].pos = 1 /\ Len(buf) > 2
  /\ results[2].kind = "Ok" /\ results[2].val = values[2]

\* Where leb128_encode returns Ok into a sink that takes every byte, the
\* bytes have the wire format and the minimal length, and it panics for no
\* type but i8: C5, C6 and C7 fail on that panic alone.
WireFormatWhereOk ==
  (OneValue /\ AllWritesTaken /\ EncodeReturned /\ ety # Signed(8)) =>
    EncodeWireFormat /\ CanonicalMinimalLength
PanicsOnlyForI8 ==
  (Encoded /\ enc.pc # "idle") => (enc.pc = "panic" <=> ety = Signed(8))

\* The encodings tests::test_unsigned_exact and tests::test_signed_exact
\* expect.
ExactEncodings ==
  (OneValue /\ AllWritesTaken /\ enc.pc = "ok") =>
    /\ (ety = Unsigned(8) /\ values[1] = {0, 7}) => buf = <<129, 1>>
    /\ (ety = Unsigned(64) /\ values[1] = {1, 6, 10, 12, 15, 17}) => buf = <<194, 168, 10>>
    /\ (ety = Signed(16) /\ values[1] = 0..6) => buf = <<255, 0>>
    /\ (ety = Signed(32) /\ values[1] = (0..31) \ {1, 4, 6}) => buf = <<173, 127>>
    /\ (ety = Signed(32) /\ values[1] = (0..31) \ {0, 4, 6, 9, 10, 15})
         => buf = <<174, 243, 125>>

\* C10: when leb128_encode returns Ok(n), exactly n bytes have been appended
\* to the sink, whatever the sink did with each write.
EncodeCountTruthful ==
  (OneValue /\ enc.pc = "ok") => Len(buf) = enc.bytes_written

====
